---- MODULE Spec2Model ----
\* Model of flight_booking.py: a command-line client that resolves its flags
\* (InputHandler), issues one search GET, selects the cheapest or the fastest
\* candidate (FlightBooker.search_flight), asks for confirmation and issues
\* one booking POST.  Python's None is the empty tuple, a present value x is
\* the one-element tuple <<x>>.
EXTENDS Integers, Sequences, FiniteSets, TLC

\* ---------------------------------------------------------------- bounds
MaxFlights == 2
MaxScan == 3
MaxPrompts == 3

\* ---------------------------------------------------------------- values
None == <<>>
Some(x) == <<x>>

Dates == {"01/01/2020"}
Nights == {0, 3}
Bags == {0, 1}
Prices == {80, 100}
Durations == {300, 500}
Airports == {"PRG"}
Destinations == {"LHR"}
Tokens == {"tokA", "tokB"}
BookingIds == {"abc123"}
Answers == {"y", "Y", "n", "N", "yes"}
Statuses == {200, 201, 204, 304, 404}
Failures == {"ConnectionError", "Timeout", "ConnectTimeout"}

test_user == [name |-> "test", surname |-> "test", category |-> "adults"]
search_uri == "https://api.skypicker.com/flights"
booking_uri == "save_booking?v=2"

\* One flight record of the search response.
Flights ==
  [price : Prices, duration : [total : Durations], booking_token : Tokens]

FlightLists(n) == UNION {[1..k -> Flights] : k \in 0..n}

\* The command lines: every flag given or not, argparse's types applied.
CommandLines ==
  [date : Dates, flight_from : Airports, to : Destinations,
   one_way : BOOLEAN, returning : {None} \cup {Some(n) : n \in Nights},
   cheapest : BOOLEAN, fastest : BOOLEAN,
   direct : BOOLEAN, bags : Bags]

\* Outcomes of requests.get on the search endpoint.
SearchResponses(n) ==
  [status : Statuses, kind : {"nojson", "nodata"}, data : {<<>>}]
    \cup [status : Statuses, kind : {"data"}, data : FlightLists(n)]

\* Outcomes of requests.post on the booking endpoint.
BookingResponses ==
  [status : Statuses, kind : {"nojson", "noid"}, booking_id : {""}]
    \cup [status : Statuses, kind : {"id"}, booking_id : BookingIds]

VARIABLES
  pc,             \* position of the script
  argv,           \* the command line as given
  args,           \* InputHandler.args, the namespace after __init__
  flight_filter,  \* FlightBooker.flight_filter
  flights_data,   \* handle_booking's local: what get_flights returned
  flight_to_book, \* FlightBooker.flight_to_book
  choice,         \* proceed_with_booking's local
  prompts,        \* number of input() calls made
  gets,           \* the search GETs issued (their query parameters)
  posts,          \* the booking POSTs issued (their payloads)
  search_reply,   \* None, or the outcome of requests.get in get_flights
  booking_reply,  \* None, or the outcome of requests.post in book_flight
  out,            \* the lines printed
  fault,          \* the exception that ended the process, "none" otherwise
  exit_code       \* None while running, Some(code) once the process ended

vars == <<pc, argv, args, flight_filter, flights_data, flight_to_book, choice,
          prompts, gets, posts, search_reply, booking_reply, out, fault,
          exit_code>>

Line(m, a) == [msg |-> m, arg |-> a]

\* Python truthiness of an optional integer (None and 0 are falsy).
TruthyInt(v) == v # None /\ v[1] # 0

\* Python truthiness of what get_flights returns (None and [] are falsy).
TruthyList(v) == v # None /\ v[1] # <<>>

\* Variant: the answer compared as typed.
Lower_AsTyped(s) == s

\* str.lower() on the answers.
Lower(s) == CASE s = "Y" -> "y" [] s = "N" -> "n" [] OTHER -> s

\* argparse defaults before any flag is seen.
DefaultArgs ==
  [date |-> "", flight_from |-> "", to |-> "",
   one_way |-> TRUE, returning |-> None,
   cheapest |-> FALSE, fastest |-> FALSE, direct |-> FALSE, bags |-> 0]

\* parse_args: the two mutually exclusive groups reject a command line that
\* gives both members.
Accepted(cl) ==
  /\ ~(cl.one_way /\ cl.returning # None)
  /\ ~(cl.cheapest /\ cl.fastest)

\* parse_args on an accepted command line: --one_way is store_true with
\* default True, so it is True given or not.
parse_args(cl) ==
  [date |-> cl.date, flight_from |-> cl.flight_from, to |-> cl.to,
   one_way |-> IF cl.one_way THEN TRUE ELSE DefaultArgs.one_way,
   returning |-> cl.returning,
   cheapest |-> cl.cheapest, fastest |-> cl.fastest,
   direct |-> cl.direct, bags |-> cl.bags]

\* Variant: cheapest is not made the default.
Resolve_NoDefault(a) ==
  IF ~TruthyInt(a.returning) THEN [a EXCEPT !.one_way = TRUE] ELSE a

\* The defaulting at the end of InputHandler.__init__.
Resolve(a) ==
  LET a1 == IF ~a.fastest THEN [a EXCEPT !.cheapest = TRUE] ELSE a
  IN  IF ~TruthyInt(a1.returning) THEN [a1 EXCEPT !.one_way = TRUE] ELSE a1

NoFilter ==
  [flyFrom |-> "", to |-> "", dateFrom |-> "", dateTo |-> "", partner |-> "",
   directFlights |-> 0, oneforcity |-> 0, typeFlight |-> "",
   daysInDestinationFrom |-> None, daysInDestinationTo |-> None]

set_filter(a) ==
  [flyFrom |-> a.flight_from, to |-> a.to,
   dateFrom |-> a.date, dateTo |-> a.date, partner |-> "picky",
   directFlights |-> IF a.direct THEN 1 ELSE 0,
   oneforcity |-> IF a.cheapest THEN 1 ELSE 0,
   typeFlight |-> IF TruthyInt(a.returning) THEN "round" ELSE "oneway",
   daysInDestinationFrom |-> a.returning,
   daysInDestinationTo |-> a.returning]

\* The loop of find_fastest_flight from position i on, best being the running
\* fastest_flight (min_duration is best's duration throughout).
RECURSIVE FastestFrom(_, _, _)
FastestFrom(flights, i, best) ==
  IF i > Len(flights) THEN best
  ELSE IF flights[i].duration.total < best.duration.total
       THEN FastestFrom(flights, i + 1, flights[i])
       ELSE FastestFrom(flights, i + 1, best)

\* Variant: the scan compares with <=, so it keeps the last of equal durations.
RECURSIVE FastestFromLE(_, _, _)
FastestFromLE(flights, i, best) ==
  IF i > Len(flights) THEN best
  ELSE IF flights[i].duration.total <= best.duration.total
       THEN FastestFromLE(flights, i + 1, flights[i])
       ELSE FastestFromLE(flights, i + 1, best)

find_fastest_flight_LE(flights) == FastestFromLE(flights, 2, flights[1])

find_fastest_flight(flights) == FastestFrom(flights, 2, flights[1])

\* The loop of find_cheapest_flight from position i on.
RECURSIVE CheapestFrom(_, _, _)
CheapestFrom(flights, i, best) ==
  IF i > Len(flights) THEN best
  ELSE IF flights[i].price < best.price
       THEN CheapestFrom(flights, i + 1, flights[i])
       ELSE CheapestFrom(flights, i + 1, best)

\* Variant: the scan compares with <=, so it keeps the last of equal prices.
RECURSIVE CheapestFromLE(_, _, _)
CheapestFromLE(flights, i, best) ==
  IF i > Len(flights) THEN best
  ELSE IF flights[i].price <= best.price
       THEN CheapestFromLE(flights, i + 1, flights[i])
       ELSE CheapestFromLE(flights, i + 1, best)

find_cheapest_flight_LE(flights) == CheapestFromLE(flights, 2, flights[1])

find_cheapest_flight(flights) == CheapestFrom(flights, 2, flights[1])

search_flight(flights, a) ==
  IF Len(flights) = 1 THEN flights[1]
  ELSE IF a.cheapest THEN find_cheapest_flight(flights)
  ELSE find_fastest_flight(flights)

search_message(a, f) ==
  Line("Searching for", IF a.cheapest THEN "cheapest" ELSE "fastest")

show_flight_details(ftb, a) ==
  <<Line("", "")>> \o
  (IF ftb = None THEN <<Line("No suitable flight was found", "")>>
   ELSE <<Line("Flight from", ""), Line("To", ""),
          Line("Price", ToString(ftb[1].price)), Line("Flight duration", "")>>
        \o (IF TruthyInt(a.returning) THEN <<Line("Return duration", "")>>
            ELSE <<>>))

\* Variant: the token of the first flight of the response is sent.
booking_data_First(a, ftb) ==
  [lang |-> "en", bags |-> a.bags, passengers |-> <<test_user>>,
   locale |-> "en", currency |-> "gbp",
   booking_token |-> flights_data[1][1].booking_token,
   affily |-> "affil_id", booked_at |-> "affil_id"]

booking_data(a, ftb) ==
  [lang |-> "en", bags |-> a.bags, passengers |-> <<test_user>>,
   locale |-> "en", currency |-> "gbp",
   booking_token |-> ftb[1].booking_token,
   affily |-> "affil_id", booked_at |-> "affil_id"]

\* Variant: only the 5xx statuses raise.
RaisesForStatus_5xx(status) == status >= 500 /\ status < 600

\* raise_for_status raises HTTPError for the 4xx and 5xx statuses only.
RaisesForStatus(status) == status >= 400 /\ status < 600

\* The message of the except clause of handling_request that catches the
\* failure; ConnectTimeout is both a ConnectionError and a Timeout and the
\* ConnectionError clause comes first.
FailureMessage(f) ==
  IF f \in {"ConnectionError", "ConnectTimeout"}
  THEN Line("Failed to establish connection, check your internet settings and try again", "")
  ELSE Line("Connection timed out", "")

\* What the script holds of an outcome of requests.get / requests.post: the
\* exception raised by the transport, or the response r.
Raised(f) == [failure |-> f, status |-> 0, kind |-> "", body |-> <<>>]
Response(r, b) == [failure |-> "none", status |-> r.status, kind |-> r.kind, body |-> b]

\* exit(code), or an uncaught exception, ends the process.
Terminate(code, exc) ==
  /\ pc' = "done"
  /\ exit_code' = Some(code)
  /\ fault' = exc

Init ==
  /\ pc = "start"
  /\ argv = [DefaultArgs EXCEPT !.one_way = FALSE]
  /\ args = DefaultArgs
  /\ flight_filter = NoFilter
  /\ flights_data = None
  /\ flight_to_book = None
  /\ choice = ""
  /\ prompts = 0
  /\ gets = <<>>
  /\ posts = <<>>
  /\ search_reply = None
  /\ booking_reply = None
  /\ out = <<>>
  /\ fault = "none"
  /\ exit_code = None

\* InputHandler.__init__ on a command line argparse rejects: usage, exit 2.
UsageError ==
  /\ pc = "start"
  /\ \E cl \in CommandLines :
       /\ ~Accepted(cl)
       /\ argv' = cl
  /\ Terminate(2, "usage")
  /\ UNCHANGED <<search_reply, booking_reply, args, flight_filter, flights_data, flight_to_book, choice,
                 prompts, gets, posts, out>>

\* InputHandler.__init__ on an accepted command line, then
\* FlightBooker.__init__.
InputHandler ==
  /\ pc = "start"
  /\ \E cl \in CommandLines :
       /\ Accepted(cl)
       /\ argv' = cl
       /\ args' = Resolve(parse_args(cl))
       /\ flight_filter' = set_filter(Resolve(parse_args(cl)))
  /\ flight_to_book' = None
  /\ pc' = "handle_booking"
  /\ UNCHANGED <<search_reply, booking_reply, flights_data, choice, prompts, gets, posts, out, fault,
                 exit_code>>

\* handle_booking up to get_flights: the request fails to connect or times out.
GetFlightsFailure ==
  /\ pc = "handle_booking"
  /\ gets' = Append(gets, flight_filter)
  /\ \E f \in Failures :
       /\ search_reply' = Some(Raised(f))
       /\ out' = out \o <<search_message(args, flight_filter), FailureMessage(f)>>
  /\ Terminate(1, "exit")
  /\ UNCHANGED <<booking_reply, argv, args, flight_filter, flights_data, flight_to_book,
                 choice, prompts, posts>>

\* get_flights: a response with a 4xx or 5xx status.
GetFlightsHTTPError ==
  /\ pc = "handle_booking"
  /\ gets' = Append(gets, flight_filter)
  /\ \E r \in SearchResponses(MaxFlights) :
       /\ search_reply' = Some(Response(r, r.data))
       /\ RaisesForStatus(r.status)
       /\ out' = out \o <<search_message(args, flight_filter),
                          Line("HTTPError", ToString(r.status))>>
  /\ Terminate(1, "exit")
  /\ UNCHANGED <<booking_reply, argv, args, flight_filter, flights_data, flight_to_book,
                 choice, prompts, posts>>

\* get_flights: status 200 whose body is not JSON or has no 'data': r.json()
\* or the subscript raises, and handling_request catches neither.
GetFlightsUncaught ==
  /\ pc = "handle_booking"
  /\ gets' = Append(gets, flight_filter)
  /\ out' = Append(out, search_message(args, flight_filter))
  /\ \E r \in SearchResponses(MaxFlights) :
       /\ search_reply' = Some(Response(r, r.data))
       /\ r.status = 200
       /\ r.kind # "data"
       /\ Terminate(1, IF r.kind = "nojson" THEN "JSONDecodeError" ELSE "KeyError")
  /\ UNCHANGED <<booking_reply, argv, args, flight_filter, flights_data, flight_to_book,
                 choice, prompts, posts>>

\* Variant: get_flights returns the body's 'data' whatever the status.
GetFlightsReturn_AnyStatus ==
  /\ pc = "handle_booking"
  /\ gets' = Append(gets, flight_filter)
  /\ out' = Append(out, search_message(args, flight_filter))
  /\ \E r \in SearchResponses(MaxFlights) :
       /\ search_reply' = Some(Response(r, r.data))
       /\ ~RaisesForStatus(r.status)
       /\ r.status = 200 => r.kind = "data"
       /\ flights_data' = Some(r.data)
  /\ pc' = "got_flights"
  /\ UNCHANGED <<booking_reply, argv, args, flight_filter, flight_to_book,
                 choice, prompts, posts, fault, exit_code>>

\* get_flights returns: the 'data' of a 200 response, None for any other
\* status that raise_for_status lets through.
GetFlightsReturn ==
  /\ pc = "handle_booking"
  /\ gets' = Append(gets, flight_filter)
  /\ out' = Append(out, search_message(args, flight_filter))
  /\ \E r \in SearchResponses(MaxFlights) :
       /\ search_reply' = Some(Response(r, r.data))
       /\ ~RaisesForStatus(r.status)
       /\ r.status = 200 => r.kind = "data"
       /\ flights_data' = IF r.status = 200 THEN Some(r.data) ELSE None
  /\ pc' = "got_flights"
  /\ UNCHANGED <<booking_reply, argv, args, flight_filter, flight_to_book, choice, prompts,
                 posts, fault, exit_code>>

\* handle_booking, flights_data truthy: search_flight, show_flight_details,
\* and the entry of proceed_with_booking.
SearchFlight ==
  /\ pc = "got_flights"
  /\ TruthyList(flights_data)
  /\ flight_to_book' = Some(search_flight(flights_data[1], args))
  /\ out' = out \o show_flight_details(Some(search_flight(flights_data[1], args)), args)
                \o <<Line("", "")>>
  /\ choice' = ""
  /\ pc' = "prompt"
  /\ UNCHANGED <<search_reply, booking_reply, argv, args, flight_filter, flights_data, prompts, gets,
                 posts, fault, exit_code>>

\* Variant: proceed_with_booking is called on the else branch too.
NoFlights_Proceed ==
  /\ pc = "got_flights"
  /\ ~TruthyList(flights_data)
  /\ out' = Append(out, Line("No suitable flights were found based on your criteria", ""))
  /\ choice' = ""
  /\ pc' = "prompt"
  /\ UNCHANGED <<search_reply, booking_reply, argv, args, flight_filter,
                 flights_data, flight_to_book, prompts, gets, posts, fault,
                 exit_code>>

\* handle_booking, flights_data falsy: the message, and the script ends.
NoFlights ==
  /\ pc = "got_flights"
  /\ ~TruthyList(flights_data)
  /\ out' = Append(out, Line("No suitable flights were found based on your criteria", ""))
  /\ Terminate(0, "none")
  /\ UNCHANGED <<search_reply, booking_reply, argv, args, flight_filter, flights_data, flight_to_book,
                 choice, prompts, gets, posts>>

\* One iteration of the loop of proceed_with_booking with an answer that is
\* neither y nor n: the loop condition holds again.
PromptAgain ==
  /\ pc = "prompt"
  /\ prompts < MaxPrompts
  /\ \E c \in Answers :
       /\ Lower(c) \notin {"y", "n"}
       /\ choice' = c
  /\ prompts' = prompts + 1
  /\ out' = Append(out, Line("Do you wish to book the flight? y/n: ", ""))
  /\ UNCHANGED <<search_reply, booking_reply, pc, argv, args, flight_filter, flights_data, flight_to_book,
                 gets, posts, fault, exit_code>>

\* One iteration answered y: book_flight is called.
PromptYes ==
  /\ pc = "prompt"
  /\ prompts < MaxPrompts
  /\ \E c \in Answers :
       /\ Lower(c) = "y"
       /\ choice' = c
  /\ prompts' = prompts + 1
  /\ out' = Append(out, Line("Do you wish to book the flight? y/n: ", ""))
  /\ pc' = "book_flight"
  /\ UNCHANGED <<search_reply, booking_reply, argv, args, flight_filter, flights_data, flight_to_book,
                 gets, posts, fault, exit_code>>

\* One iteration answered n: the message, the loop and the script end.
PromptNo ==
  /\ pc = "prompt"
  /\ prompts < MaxPrompts
  /\ \E c \in Answers :
       /\ Lower(c) = "n"
       /\ choice' = c
  /\ prompts' = prompts + 1
  /\ out' = out \o <<Line("Do you wish to book the flight? y/n: ", ""),
                     Line("Flight wasn't booked", "")>>
  /\ Terminate(0, "none")
  /\ UNCHANGED <<search_reply, booking_reply, argv, args, flight_filter, flights_data, flight_to_book,
                 gets, posts>>

BookingLines == <<Line("", ""), Line("Booking flight with bags", ToString(args.bags))>>

\* book_flight: the POST fails to connect or times out.
BookFlightFailure ==
  /\ pc = "book_flight"
  /\ posts' = Append(posts, booking_data(args, flight_to_book))
  /\ \E f \in Failures :
       /\ booking_reply' = Some(Raised(f))
       /\ out' = out \o BookingLines \o <<FailureMessage(f)>>
  /\ Terminate(1, "exit")
  /\ UNCHANGED <<search_reply, argv, args, flight_filter, flights_data, flight_to_book,
                 choice, prompts, gets>>

\* book_flight: a response with a 4xx or 5xx status.
BookFlightHTTPError ==
  /\ pc = "book_flight"
  /\ posts' = Append(posts, booking_data(args, flight_to_book))
  /\ \E r \in BookingResponses :
       /\ booking_reply' = Some(Response(r, r.booking_id))
       /\ RaisesForStatus(r.status)
       /\ out' = out \o BookingLines \o <<Line("HTTPError", ToString(r.status))>>
  /\ Terminate(1, "exit")
  /\ UNCHANGED <<search_reply, argv, args, flight_filter, flights_data, flight_to_book,
                 choice, prompts, gets>>

\* book_flight: status 200 or 201 whose body is not JSON or has no
\* 'booking_id': uncaught.
BookFlightUncaught ==
  /\ pc = "book_flight"
  /\ posts' = Append(posts, booking_data(args, flight_to_book))
  /\ out' = out \o BookingLines
  /\ \E r \in BookingResponses :
       /\ booking_reply' = Some(Response(r, r.booking_id))
       /\ r.status \in {200, 201}
       /\ r.kind # "id"
       /\ Terminate(1, IF r.kind = "nojson" THEN "JSONDecodeError" ELSE "KeyError")
  /\ UNCHANGED <<search_reply, argv, args, flight_filter, flights_data, flight_to_book,
                 choice, prompts, gets>>

\* Variant: the confirmation line is printed for status 200 only.
BookFlightReturn_200Only ==
  /\ pc = "book_flight"
  /\ posts' = Append(posts, booking_data(args, flight_to_book))
  /\ \E r \in BookingResponses :
       /\ booking_reply' = Some(Response(r, r.booking_id))
       /\ ~RaisesForStatus(r.status)
       /\ r.status \in {200, 201} => r.kind = "id"
       /\ out' = out \o BookingLines \o
                 (IF r.status = 200
                  THEN <<Line("Your flight was booked, booking id: ", r.booking_id)>>
                  ELSE <<>>)
  /\ Terminate(0, "none")
  /\ UNCHANGED <<search_reply, argv, args, flight_filter, flights_data,
                 flight_to_book, choice, prompts, gets>>

\* book_flight returns: the confirmation line for 200 and 201, nothing for
\* any other status raise_for_status lets through; the loop and the script end.
BookFlightReturn ==
  /\ pc = "book_flight"
  /\ posts' = Append(posts, booking_data(args, flight_to_book))
  /\ \E r \in BookingResponses :
       /\ booking_reply' = Some(Response(r, r.booking_id))
       /\ ~RaisesForStatus(r.status)
       /\ r.status \in {200, 201} => r.kind = "id"
       /\ out' = out \o BookingLines \o
                 (IF r.status \in {200, 201}
                  THEN <<Line("Your flight was booked, booking id: ", r.booking_id)>>
                  ELSE <<>>)
  /\ Terminate(0, "none")
  /\ UNCHANGED <<search_reply, argv, args, flight_filter, flights_data, flight_to_book,
                 choice, prompts, gets>>

Next ==
  \/ UsageError
  \/ InputHandler
  \/ GetFlightsFailure
  \/ GetFlightsHTTPError
  \/ GetFlightsUncaught
  \/ GetFlightsReturn
  \/ SearchFlight
  \/ NoFlights
  \/ PromptAgain
  \/ PromptYes
  \/ PromptNo
  \/ BookFlightFailure
  \/ BookFlightHTTPError
  \/ BookFlightUncaught
  \/ BookFlightReturn

Spec == Init /\ [][Next]_vars

\* ------------------------------------------------------------------------
\* The selection alone: the states in which get_flights has just returned a
\* non-empty list of up to MaxScan flights, and the selection taken from them.
SelectInit ==
  \E cl \in CommandLines, fl \in FlightLists(MaxScan) :
    /\ Accepted(cl)
    /\ fl # <<>>
    /\ pc = "got_flights"
    /\ argv = cl
    /\ args = Resolve(parse_args(cl))
    /\ flight_filter = set_filter(Resolve(parse_args(cl)))
    /\ flights_data = Some(fl)
    /\ flight_to_book = None
    /\ choice = ""
    /\ prompts = 0
    /\ gets = <<set_filter(Resolve(parse_args(cl)))>>
    /\ posts = <<>>
    /\ search_reply = Some([failure |-> "none", status |-> 200, kind |-> "data", body |-> fl])
    /\ booking_reply = None
    /\ out = <<search_message(Resolve(parse_args(cl)), set_filter(Resolve(parse_args(cl))))>>
    /\ fault = "none"
    /\ exit_code = None

SelectNext == SearchFlight

SpecSelect == SelectInit /\ [][SelectNext]_vars

\* ------------------------------------------------------------------------
\* Properties.

NoFlightsMessage == "No suitable flights were found based on your criteria"
PromptMessage == "Do you wish to book the flight? y/n: "
BookedMessage == "Your flight was booked, booking id: "
HandlerMessages ==
  {"Failed to establish connection, check your internet settings and try again",
   "Connection timed out", "HTTPError"}

LastLine == out[Len(out)]
Printed(m) == \E i \in 1..Len(out) : out[i].msg = m

\* The request got a response (no exception from the transport).
Answered(reply) == reply # None /\ reply[1].failure = "none"
Is2xx(reply) == Answered(reply) /\ reply[1].status >= 200 /\ reply[1].status <= 299
\* The request failed to connect, timed out, or got a 4xx/5xx response.
Fatal(reply) ==
  reply # None /\ (reply[1].failure # "none"
                   \/ (reply[1].status >= 400 /\ reply[1].status <= 599))
\* The request failed to connect, timed out, or got a non-2xx response.
NotOK(reply) == reply # None /\ ~Is2xx(reply)
\* The body of a response that is read is not JSON or lacks the field.
Malformed(reply, read, kind) ==
  Answered(reply) /\ reply[1].status \in read /\ reply[1].kind # kind

\* C1: under CHEAPEST the flight selected from a non-empty list has the
\* minimum price of the list and is the first flight of that price; from a
\* one-element list it is that element.
C1_Cheapest ==
  (flight_to_book # None /\ args.cheapest) =>
    LET fl == flights_data[1]
        sel == flight_to_book[1]
    IN  /\ Len(fl) = 1 => sel = fl[1]
        /\ \E i \in 1..Len(fl) :
             /\ sel = fl[i]
             /\ \A j \in 1..Len(fl) : fl[j].price >= fl[i].price
             /\ \A j \in 1..(i - 1) : fl[j].price > fl[i].price

\* Three flights, the last two at the minimum price and distinct: the second
\* was selected.
C1_Witness ==
  /\ flight_to_book # None /\ args.cheapest
  /\ Len(flights_data[1]) = 3
  /\ flights_data[1][1].price > flights_data[1][2].price
  /\ flights_data[1][2].price = flights_data[1][3].price
  /\ flights_data[1][2] # flights_data[1][3]
  /\ flight_to_book[1] = flights_data[1][2]

\* C2: under FASTEST the flight selected from a non-empty list has the
\* minimum total duration of the list and is the first flight of that
\* duration; from a one-element list it is that element.
C2_Fastest ==
  (flight_to_book # None /\ ~args.cheapest) =>
    LET fl == flights_data[1]
        sel == flight_to_book[1]
    IN  /\ Len(fl) = 1 => sel = fl[1]
        /\ \E i \in 1..Len(fl) :
             /\ sel = fl[i]
             /\ \A j \in 1..Len(fl) : fl[j].duration.total >= fl[i].duration.total
             /\ \A j \in 1..(i - 1) : fl[j].duration.total > fl[i].duration.total

C2_Witness ==
  /\ flight_to_book # None /\ ~args.cheapest
  /\ Len(flights_data[1]) = 3
  /\ flights_data[1][1].duration.total > flights_data[1][2].duration.total
  /\ flights_data[1][2].duration.total = flights_data[1][3].duration.total
  /\ flights_data[1][2] # flights_data[1][3]
  /\ flights_data[1][1].price < flights_data[1][2].price
  /\ flight_to_book[1] = flights_data[1][2]

\* C3: after an accepted command line exactly one of cheapest and fastest is
\* set: cheapest is true when --fastest was not given, whatever --cheapest
\* was, and false when --fastest was given.
C3_Priority ==
  (pc # "start" /\ fault # "usage") =>
    /\ args.cheapest <=> ~args.fastest
    /\ ~argv.fastest => (args.cheapest /\ ~args.fastest)
    /\ argv.fastest => (~args.cheapest /\ args.fastest)
    /\ flight_filter.oneforcity = (IF argv.fastest THEN 0 ELSE 1)

\* Neither flag given: cheapest was forced.
C3_Witness ==
  /\ pc = "handle_booking"
  /\ ~argv.cheapest /\ ~argv.fastest
  /\ args.cheapest /\ ~args.fastest

\* C4: after an accepted command line exactly one of one-way and round trip
\* is active: without --returning, one_way is true and typeFlight is
\* 'oneway'; with --returning n (n >= 0), typeFlight is 'round' and one_way
\* is not set.
C4_TripType ==
  (pc # "start" /\ fault # "usage") =>
    /\ argv.returning = None =>
         (args.one_way /\ flight_filter.typeFlight = "oneway")
    /\ argv.returning # None =>
         (~args.one_way /\ flight_filter.typeFlight = "round")

\* C5: a search that succeeds with an empty candidate array leads to the
\* no-flights message only: no prompt, no booking POST, no selected flight,
\* exit code 0.
C5_NoFlights ==
  (Is2xx(search_reply) /\ search_reply[1].kind = "data"
     /\ search_reply[1].body = <<>>) =>
    /\ pc \in {"got_flights", "done"}
    /\ prompts = 0 /\ ~Printed(PromptMessage)
    /\ posts = <<>> /\ booking_reply = None
    /\ flight_to_book = None
    /\ pc = "done" =>
         (exit_code = Some(0) /\ LastLine.msg = NoFlightsMessage)

C5_Witness ==
  /\ pc = "done"
  /\ Answered(search_reply) /\ search_reply[1].status = 200
  /\ search_reply[1].kind = "data" /\ search_reply[1].body = <<>>
  /\ exit_code = Some(0) /\ posts = <<>>
  /\ LastLine.msg = NoFlightsMessage

C7_Loop ==
  /\ pc = "prompt" => choice \notin {"y", "Y", "n", "N"}
  /\ pc = "book_flight" => (choice \in {"y", "Y"} /\ posts = <<>>)
  /\ posts # <<>> => (choice \in {"y", "Y"} /\ Len(posts) = 1)
  /\ choice \in {"n", "N"} =>
       (pc = "done" /\ posts = <<>> /\ exit_code = Some(0)
        /\ LastLine.msg = "Flight wasn't booked")

C7_Step ==
  /\ prompts' # prompts =>
       /\ pc = "prompt" /\ prompts' = prompts + 1
       /\ posts' = posts
       /\ pc' = (IF choice' \in {"y", "Y"} THEN "book_flight"
                 ELSE IF choice' \in {"n", "N"} THEN "done" ELSE "prompt")
  /\ pc = "book_flight" => (Len(posts') = 1 /\ pc' = "done")
  /\ pc # "prompt" => prompts' = prompts

\* C7: the confirmation loop prompts again after every answer that is not
\* y or n in either case; the first y makes exactly one booking call and ends
\* the prompting, the first n prints that the flight was not booked, makes no
\* booking call and ends the prompting.
C7_Confirmation == [](C7_Loop) /\ [][C7_Step]_vars

\* As many other answers as the bound allows, then Y: one booking call.
C7_Witness ==
  /\ prompts = MaxPrompts
  /\ choice = "Y"
  /\ pc = "done"
  /\ Len(posts) = 1

\* C8 as stated: a 2xx search response whose JSON has no 'data' or an empty
\* one makes get_flights return the empty sequence, without error, and the
\* run ends on the no-flights path with exit code 0.
C8_AsStated ==
  (Is2xx(search_reply)
     /\ (search_reply[1].kind = "nodata"
         \/ (search_reply[1].kind = "data" /\ search_reply[1].body = <<>>))) =>
    /\ flights_data = Some(<<>>)
    /\ fault = "none"
    /\ pc = "done" => (exit_code = Some(0) /\ LastLine.msg = NoFlightsMessage)

\* C8: a 200 search response with an empty 'data' makes get_flights return
\* the empty sequence, and a 2xx response of another status makes it return
\* None without reading the body; neither is an error, the run ends on the
\* no-flights path with exit code 0.  A 200 response whose JSON has no 'data'
\* raises a KeyError that is not caught: exit code 1, no no-flights message.
C8_SearchBody ==
  (Is2xx(search_reply)
     /\ (search_reply[1].kind = "nodata"
         \/ (search_reply[1].kind = "data" /\ search_reply[1].body = <<>>))) =>
    IF search_reply[1].status = 200 /\ search_reply[1].kind = "nodata"
    THEN /\ pc = "done" /\ exit_code = Some(1) /\ fault = "KeyError"
         /\ flights_data = None
         /\ ~Printed(NoFlightsMessage)
    ELSE /\ flights_data = (IF search_reply[1].status = 200 THEN Some(<<>>) ELSE None)
         /\ fault = "none"
         /\ pc \in {"got_flights", "done"}
         /\ pc = "done" => (exit_code = Some(0) /\ LastLine.msg = NoFlightsMessage)

\* get_flights has just returned the empty 'data' of a 200 response.
C8_Witness ==
  /\ pc = "got_flights"
  /\ Answered(search_reply) /\ search_reply[1].status = 200
  /\ search_reply[1].kind = "data" /\ search_reply[1].body = <<>>
  /\ flights_data = Some(<<>>)

\* C9 as stated: any 2xx booking response carrying booking_id is confirmed
\* with a line containing it, exit code 0.
C9_AsStated ==
  (pc = "done" /\ Is2xx(booking_reply) /\ booking_reply[1].kind = "id") =>
    /\ LastLine = Line(BookedMessage, booking_reply[1].body)
    /\ exit_code = Some(0)

\* C9: a booking response of status 200 or 201 carrying booking_id is
\* confirmed with a line containing that identifier, and the run ends with
\* exit code 0.
C9_Booked ==
  (pc = "done" /\ Answered(booking_reply)
     /\ booking_reply[1].status \in {200, 201} /\ booking_reply[1].kind = "id") =>
    /\ LastLine = Line(BookedMessage, booking_reply[1].body)
    /\ exit_code = Some(0)

C9_Witness ==
  /\ pc = "done"
  /\ Answered(booking_reply) /\ booking_reply[1].status = 201
  /\ booking_reply[1].body = "abc123"
  /\ LastLine = Line(BookedMessage, "abc123")
  /\ exit_code = Some(0)

\* C10: at most one search GET and one booking POST; a flight is selected
\* only from the non-empty list of a successful search, the prompt comes only
\* after the selection, and the POST only after a y answer, carrying the
\* selected flight's token.
C10_Order ==
  /\ Len(gets) <= 1 /\ Len(posts) <= 1
  /\ (pc \notin {"start", "handle_booking"} /\ fault # "usage") => Len(gets) = 1
  /\ flight_to_book # None =>
       /\ Len(gets) = 1
       /\ Answered(search_reply) /\ search_reply[1].status = 200
       /\ search_reply[1].kind = "data"
       /\ \E i \in 1..Len(search_reply[1].body) :
            flight_to_book[1] = search_reply[1].body[i]
  /\ (prompts > 0 \/ pc \in {"prompt", "book_flight"}) => flight_to_book # None
  /\ posts # <<>> =>
       /\ flight_to_book # None
       /\ prompts > 0 /\ choice \in {"y", "Y"}
       /\ pc = "done"
       /\ posts[1].booking_token = flight_to_book[1].booking_token
  /\ booking_reply # None => posts # <<>>

\* The second of two flights with different tokens was selected and booked.
C10_Witness ==
  /\ posts # <<>>
  /\ Len(flights_data[1]) = 2
  /\ flights_data[1][1].booking_token # flights_data[1][2].booking_token
  /\ flight_to_book[1] = flights_data[1][2]
  /\ posts[1].booking_token = flights_data[1][2].booking_token

====
